---- MODULE Spec2Model ----
(***************************************************************************)
(* Model of the climate dashboard's data pipeline (utils/processing.py):   *)
(* load_and_concat -> clean_and_engineer -> compute_kpis, and later of     *)
(* the per-user stores (write_artifacts, utils/auth.py, data_tools.py).    *)
(*                                                                         *)
(* Numbers are exact rationals <<n, d>> with d > 0 in lowest terms; the    *)
(* float NaN is <<0, 0>>.  Timestamps are minutes since the dataset's      *)
(* first hour; NaT is -1.  A raw cell of an uploaded table is a code: in a *)
(* numeric column a natural k stands for the text of k, in the timestamp   *)
(* column for the text of the k-th logger tick (one every 45 minutes);     *)
(* BadCell is a text that does not parse (or a cell that is absent).       *)
(***************************************************************************)
EXTENDS Integers, Sequences, FiniteSets, Bags, TLC

VARIABLES
  dfs,        \* the list of uploaded tables given to load_and_concat
  combined,   \* what load_and_concat returned
  hourly,     \* what clean_and_engineer returned for combined
  hourly2,    \* what clean_and_engineer returned for hourly
  kpis,       \* what compute_kpis returned for hourly
  chartSpecs, \* what build_plotly_specs returned, and the columns of the series given
  pc,         \* the step the pipeline run is at
  artifacts,  \* the artifact directories under base_dir
  lastWrite,  \* the user and the data of the last write to the artifact store
  latest,     \* the last snapshot read back since then
  userDb,     \* data/user_db.json
  userFiles,  \* the directories under data/user_files
  now,        \* the clock, in seconds
  loaded,     \* what load_latest_dataset last returned
  dataset,    \* the dataset given to build_report_text
  settings,   \* the user settings given to build_report_text
  report,     \* what build_report_text returned
  sessions    \* per browser session: st.session_state, and the page last rendered

pipeline == <<dfs, combined, hourly, hourly2, kpis, chartSpecs, pc>>
store == <<artifacts, lastWrite, latest>>
accounts == <<userDb, userFiles, now, loaded>>
reporting == <<dataset, settings, report>>
auth == <<sessions>>
vars == <<pipeline, store, accounts, reporting, auth>>

----------------------------------------------------------------------------
(* Bounds of the model *)

MaxRows == 2
MaxStamp == 6
MaxClock == 1
MaxReportRows == 2

----------------------------------------------------------------------------
(* Program constants *)

INTERP_LIMIT == 2
ROLLING_WINDOW == 24
SECONDS_PER_HOUR == 3600
UMOL_PER_MOL == 1000000

BadCell == -1
NaT == -1
NaN == <<0, 0>>

REQUIRED == {"air_temp_C", "rh_percent", "vpd_kPa"}
NUMERIC == <<"air_temp_C", "rh_percent", "par_umol_m2_s", "vpd_kPa">>
NumericSet == {NUMERIC[i] : i \in 1..Len(NUMERIC)}
AllCols == {"timestamp"} \cup NumericSet

----------------------------------------------------------------------------
(* Exact arithmetic standing for the float columns *)

RECURSIVE GCD(_, _)
GCD(a, b) == IF b = 0 THEN a ELSE GCD(b, a % b)

Rat(n, d) == LET g == GCD(n, d) IN <<n \div g, d \div g>>
IsNaN(v) == v[2] = 0
RatAdd(a, b) == Rat(a[1] * b[2] + b[1] * a[2], a[2] * b[2])
RatScale(a, k, m) == Rat(a[1] * k, a[2] * m)
RatLeq(a, b) == a[1] * b[2] <= b[1] * a[2]

RECURSIVE SumSeq(_)
SumSeq(s) == IF s = <<>> THEN <<0, 1>> ELSE RatAdd(Head(s), SumSeq(Tail(s)))

NotNaN(v) == ~IsNaN(v)

\* Series.mean() / the resampler's mean: NaN values are skipped, NaN if none is left
Mean(s) ==
  LET present == SelectSeq(s, NotNaN)
  IN IF present = <<>> THEN NaN ELSE RatScale(SumSeq(present), 1, Len(present))

----------------------------------------------------------------------------
(* Data frames: [kind, cols, dtype, rows]; a row is a function on cols.    *)
(* dtype "object" = numeric columns still hold raw cells, "float64" = they *)
(* hold numbers.                                                           *)

NoneFrame == [kind |-> "None", cols |-> {}, dtype |-> "object", rows |-> <<>>]
Frame(cols, dtype, rows) == [kind |-> "frame", cols |-> cols, dtype |-> dtype, rows |-> rows]

Range(s) == {s[i] : i \in 1..Len(s)}
SetMax(S) == CHOOSE x \in S : \A y \in S : y <= x
SetMin(S) == CHOOSE x \in S : \A y \in S : x <= y

\* the subsequence of s at the indices in keep, in order
RECURSIVE Pick(_, _, _)
Pick(s, keep, i) ==
  IF i > Len(s) THEN <<>>
  ELSE (IF i \in keep THEN <<s[i]>> ELSE <<>>) \o Pick(s, keep, i + 1)

Column(rows, c) == [i \in 1..Len(rows) |-> rows[i][c]]

\* pd.concat(dfs, ignore_index=True): union of the columns, absent cells missing
Pad(row, have, cols) == [c \in cols |-> IF c \in have THEN row[c] ELSE BadCell]

RECURSIVE ConcatRows(_, _)
ConcatRows(tables, cols) ==
  IF tables = <<>> THEN <<>>
  ELSE LET t == Head(tables)
       IN [i \in 1..Len(t.rows) |-> Pad(t.rows[i], t.cols, cols)] \o ConcatRows(Tail(tables), cols)

Concat(tables) ==
  LET cols == UNION {tables[i].cols : i \in 1..Len(tables)}
  IN Frame(cols, "object", ConcatRows(tables, cols))

\* pd.to_datetime(errors='coerce'): the instant a text denotes, NaT when it does not parse
to_datetime(cell) == IF cell = BadCell THEN NaT ELSE cell * 45

HasStamp(row) == row["timestamp"] # NaT

Perms(n) == {p \in [1..n -> 1..n] : \A i, j \in 1..n : i # j => p[i] # p[j]}

\* sort_values('timestamp') with the default kind='quicksort': ascending, and the
\* order of rows with equal timestamps is not specified (the sort is not stable)
sort_values(rows) ==
  {[i \in 1..Len(rows) |-> rows[p[i]]] : p \in
     {q \in Perms(Len(rows)) : \A i, j \in 1..Len(rows) :
        i < j => rows[q[i]]["timestamp"] <= rows[q[j]]["timestamp"]}}

\* load_and_concat without the dropna: rows whose timestamp did not parse stay
load_and_concat_keeping_unparsed(tables) ==
  IF tables = <<>> THEN {NoneFrame}
  ELSE LET df == Concat(tables)
       IN IF "timestamp" \in df.cols
          THEN LET parsed == [i \in 1..Len(df.rows) |->
                                [df.rows[i] EXCEPT !["timestamp"] = to_datetime(@)]]
               IN {Frame(df.cols, df.dtype, s) : s \in sort_values(parsed)}
          ELSE {df}

\* the set of tables load_and_concat may return for dfs
load_and_concat(tables) ==
  IF tables = <<>> THEN {NoneFrame}
  ELSE LET df == Concat(tables)
       IN IF "timestamp" \in df.cols
          THEN LET parsed == [i \in 1..Len(df.rows) |->
                                [df.rows[i] EXCEPT !["timestamp"] = to_datetime(@)]]
                   kept == SelectSeq(parsed, HasStamp)
               IN {Frame(df.cols, df.dtype, s) : s \in sort_values(kept)}
          ELSE {df}

----------------------------------------------------------------------------
(* clean_and_engineer *)

\* drop_duplicates(subset=['timestamp']): the first row of each timestamp is kept
drop_duplicates(rows) ==
  Pick(rows, {i \in 1..Len(rows) :
                \A j \in 1..(i - 1) : rows[j]["timestamp"] # rows[i]["timestamp"]}, 1)

\* pd.to_numeric(errors='coerce') on one cell of a column of the given dtype
to_numeric(cell, dtype) ==
  IF dtype = "float64" THEN cell
  ELSE IF cell = BadCell THEN NaN ELSE <<cell, 1>>

Coerce(row, cols, dtype) ==
  [c \in cols |-> IF c \in NumericSet THEN to_numeric(row[c], dtype) ELSE row[c]]

HasRequired(row) == \A c \in REQUIRED : ~IsNaN(row[c])

\* set_index('timestamp').sort_index() on rows whose timestamps are distinct
RECURSIVE sort_index(_)
sort_index(rows) ==
  IF rows = <<>> THEN <<>>
  ELSE LET m == SetMin({rows[i]["timestamp"] : i \in 1..Len(rows)})
           k == CHOOSE i \in 1..Len(rows) : rows[i]["timestamp"] = m
       IN <<rows[k]>> \o sort_index(Pick(rows, (1..Len(rows)) \ {k}, 1))

\* a grouping by hour in place of the resampling: only the hours that have rows
resample_present_hours(rows, cols) ==
  LET hours == {rows[i]["timestamp"] \div 60 : i \in 1..Len(rows)}
      Bucket(b) == LET InB(r) == r["timestamp"] \div 60 = b IN SelectSeq(rows, InB)
      Nth(k) == CHOOSE h \in hours : Cardinality({g \in hours : g < h}) = k - 1
  IN [k \in 1..Cardinality(hours) |->
        [c \in cols |-> IF c = "timestamp" THEN Nth(k) * 60
                        ELSE Mean(Column(Bucket(Nth(k)), c))]]

\* resample('1H').mean(): one row per hour from the first row's hour to the last
\* row's hour, each numeric column the mean of the rows falling in that hour
resample_mean(rows, cols) ==
  IF rows = <<>> THEN <<>>
  ELSE LET lo == rows[1]["timestamp"] \div 60
           hi == rows[Len(rows)]["timestamp"] \div 60
           Bucket(b) == LET InB(r) == r["timestamp"] \div 60 = b IN SelectSeq(rows, InB)
       IN [k \in 1..(hi - lo + 1) |->
             [c \in cols |-> IF c = "timestamp" THEN (lo + k - 1) * 60
                             ELSE Mean(Column(Bucket(lo + k - 1), c))]]

\* the value on the line through (p, a) and (q, b) at position i
Linear(a, b, p, q, i) == RatScale(RatAdd(RatScale(a, q - i, 1), RatScale(b, i - p, 1)), 1, q - p)

\* Series.interpolate(limit=INTERP_LIMIT): method linear, direction forward.  A NaN
\* is filled when at most `limit` positions after the last valid value before it;
\* NaNs before the first valid value stay; after the last valid value the fill is
\* that value (np.interp clamps)
interpolate(v) ==
  [i \in 1..Len(v) |->
     IF ~IsNaN(v[i]) THEN v[i]
     ELSE LET before == {j \in 1..(i - 1) : ~IsNaN(v[j])}
              after == {j \in (i + 1)..Len(v) : ~IsNaN(v[j])}
          IN IF before = {} THEN NaN
             ELSE LET p == SetMax(before)
                  IN IF i - p > INTERP_LIMIT THEN NaN
                     ELSE IF after = {} THEN v[p]
                     ELSE LET q == SetMin(after) IN Linear(v[p], v[q], p, q, i)]

interpolate_frame(rows, cols) ==
  LET filled == [c \in cols \ {"timestamp"} |-> interpolate(Column(rows, c))]
  IN [i \in 1..Len(rows) |->
        [c \in cols |-> IF c = "timestamp" THEN rows[i][c] ELSE filled[c][i]]]

Raised(what) == [status |-> what, cols |-> {}, dtype |-> "object", rows |-> <<>>]
Returned(cols, rows) == [status |-> "ok", cols |-> cols, dtype |-> "float64", rows |-> rows]

clean_and_engineer(df) ==
  IF "timestamp" \notin df.cols THEN Raised("KeyError")
  ELSE LET deduped == drop_duplicates(df.rows)
           numeric == [i \in 1..Len(deduped) |-> Coerce(deduped[i], df.cols, df.dtype)]
       IN IF ~(REQUIRED \subseteq df.cols) THEN Raised("KeyError")
          ELSE LET kept == SelectSeq(numeric, HasRequired)
                   sorted == sort_index(kept)
                   hours == resample_mean(sorted, df.cols)
               IN Returned(df.cols, interpolate_frame(hours, df.cols))

----------------------------------------------------------------------------
(* compute_kpis *)

KPI_NAMES == {"air_temp_avg", "air_temp_day_max", "rh_avg", "vpd_avg", "par_daily_mol"}
KPI_COLUMNS == {"air_temp_C", "rh_percent", "vpd_kPa", "par_umol_m2_s"}

RatMax(S) == CHOOSE x \in S : \A y \in S : RatLeq(y, x)

\* an expanding maximum in place of the rolling one: the window never slides
expanding_max(v, w) ==
  [i \in 1..Len(v) |->
     LET present == {x \in {v[j] : j \in 1..i} : ~IsNaN(x)}
     IN IF present = {} THEN NaN ELSE RatMax(present)]

\* Series.rolling(w, min_periods=1).max(): at each position the largest present
\* value among that position and the w - 1 before it, NaN when all are missing
rolling_max(v, w) ==
  [i \in 1..Len(v) |->
     LET window == {v[j] : j \in {k \in 1..i : k > i - w}}
         present == {x \in window : ~IsNaN(x)}
     IN IF present = {} THEN NaN ELSE RatMax(present)]

\* a forward fill in place of the zero fill: a missing value repeats the one before it
fillna_ffill(v) ==
  [i \in 1..Len(v) |->
     IF ~IsNaN(v[i]) THEN v[i]
     ELSE LET before == {j \in 1..(i - 1) : ~IsNaN(v[j])}
          IN IF before = {} THEN <<0, 1>> ELSE v[SetMax(before)]]

fillna0(v) == [i \in 1..Len(v) |-> IF IsNaN(v[i]) THEN <<0, 1>> ELSE v[i]]

NoKpis == [k \in {} |-> NaN]

compute_kpis(df) ==
  IF df.rows = <<>> \/ df.cols = {} THEN [status |-> "ok", vals |-> NoKpis]
  ELSE IF ~(KPI_COLUMNS \subseteq df.cols) THEN [status |-> "KeyError", vals |-> NoKpis]
  ELSE LET temp == Column(df.rows, "air_temp_C")
       IN [status |-> "ok",
           vals |-> [k \in KPI_NAMES |->
             CASE k = "air_temp_avg" -> Mean(temp)
               [] k = "air_temp_day_max" -> rolling_max(temp, ROLLING_WINDOW)[Len(temp)]
               [] k = "rh_avg" -> Mean(Column(df.rows, "rh_percent"))
               [] k = "vpd_avg" -> Mean(Column(df.rows, "vpd_kPa"))
               [] k = "par_daily_mol" ->
                    RatScale(SumSeq(fillna0(Column(df.rows, "par_umol_m2_s"))),
                             SECONDS_PER_HOUR, UMOL_PER_MOL)]]

----------------------------------------------------------------------------
(* build_plotly_specs and write_artifacts.  Text is a sequence of characters. *)

CHARTS == [air_temp |-> "air_temp_C", rh |-> "rh_percent", vpd |-> "vpd_kPa"]

NoFigs == [k \in {} |-> <<>>]

\* one line chart per metric: the x and y arrays of its trace
build_plotly_specs(df) ==
  IF ~({"timestamp", "air_temp_C", "rh_percent", "vpd_kPa"} \subseteq df.cols)
  THEN [status |-> "KeyError", figs |-> NoFigs]
  ELSE [status |-> "ok",
        figs |-> [k \in DOMAIN CHARTS |->
                    [x |-> Column(df.rows, "timestamp"), y |-> Column(df.rows, CHARTS[k])]]]

RECURSIVE Flatten(_)
Flatten(ss) == IF ss = <<>> THEN <<>> ELSE Head(ss) \o Flatten(Tail(ss))

\* str.replace(old, new) for a one-character old
Replace(str, old, new) ==
  Flatten([i \in 1..Len(str) |-> IF str[i] = old THEN new ELSE <<str[i]>>])

\* the directory of a user's artifacts under base_dir
ArtifactDir(email) == Replace(email, "@", <<"_", "a", "t", "_">>)

Pow10(k) == IF k = 1 THEN 10 ELSE 100

\* f"{v:.kf}": the number of 10^-k units nearest to v (ties to even); <<>> is "nan"
Format(v, k) ==
  IF IsNaN(v) THEN <<>>
  ELSE LET x == v[1] * Pow10(k)
           lo == x \div v[2]
           r == x % v[2]
       IN IF 2 * r < v[2] THEN <<lo, k>>
          ELSE IF 2 * r > v[2] THEN <<lo + 1, k>>
          ELSE IF lo % 2 = 0 THEN <<lo, k>> ELSE <<lo + 1, k>>

REPORT_DIGITS ==
  [air_temp_avg |-> 2, air_temp_day_max |-> 2, rh_avg |-> 1, vpd_avg |-> 2, par_daily_mol |-> 2]

\* kpis.get(k, 0)
Get(kv, k) == IF k \in DOMAIN kv THEN kv[k] ELSE <<0, 1>>

\* the markdown report write_artifacts composes: its fixed lines carry these numbers
ReportOf(kv) ==
  [title |-> "# Climate Report",
   metrics |-> [k \in DOMAIN REPORT_DIGITS |-> Format(Get(kv, k), REPORT_DIGITS[k])]]

\* to_csv with na_rep='0': a missing number is written as 0
to_csv_na_zero(df) ==
  [header |-> df.cols,
   lines |-> [i \in 1..Len(df.rows) |->
                [c \in df.cols |-> IF c = "timestamp" THEN <<"T", df.rows[i][c]>>
                                   ELSE IF IsNaN(df.rows[i][c]) THEN <<0, 1>> ELSE df.rows[i][c]]]]

\* DataFrame.to_csv(index=False): a header and one line of cell texts per row; the
\* text of a missing number is empty, a timestamp is written as its date text
CellText(c, v) == IF c = "timestamp" THEN <<"T", v>> ELSE IF IsNaN(v) THEN <<>> ELSE v
to_csv(df) ==
  [header |-> df.cols,
   lines |-> [i \in 1..Len(df.rows) |-> [c \in df.cols |-> CellText(c, df.rows[i][c])]]]

\* json.dumps of a flat name -> number mapping (NaN is written as the token NaN)
dumps(kv) == [k \in DOMAIN kv |-> IF IsNaN(kv[k]) THEN <<"NaN">> ELSE kv[k]]

NoFiles == [exists |-> FALSE]

\* the four files write_artifacts leaves in the directory
ArtifactFiles(df, kv, figs) ==
  [exists |-> TRUE,
   processed_hourly_csv |-> to_csv(df),
   kpis_json |-> dumps(kv),
   figures_json |-> figs,
   report_md |-> ReportOf(kv)]

write_artifacts(dirs, email, df, kv, figs) ==
  [d \in DOMAIN dirs |-> IF d = ArtifactDir(email) THEN ArtifactFiles(df, kv, figs) ELSE dirs[d]]

\* the latest snapshot of a user, read back from the four files
TextCell(c, t) == IF c = "timestamp" THEN t[2] ELSE IF t = <<>> THEN NaN ELSE t
read_csv(csv) ==
  Frame(csv.header, "float64",
        [i \in 1..Len(csv.lines) |-> [c \in csv.header |-> TextCell(c, csv.lines[i][c])]])
loads(js) == [k \in DOMAIN js |-> IF js[k] = <<"NaN">> THEN NaN ELSE js[k]]

NotFound == [found |-> FALSE]
read_latest(dirs, email) ==
  LET f == dirs[ArtifactDir(email)]
  IN IF ~f.exists THEN NotFound
     ELSE [found |-> TRUE, series |-> read_csv(f.processed_hourly_csv),
           kpis |-> loads(f.kpis_json), chart_specs |-> f.figures_json,
           report_text |-> f.report_md]

----------------------------------------------------------------------------
(* utils/auth.py: the user database and the per-user directories *)

\* str.split(): the maximal runs of characters that are not white space
RECURSIVE Split(_, _)
Split(str, word) ==
  LET done == IF word = <<>> THEN <<>> ELSE <<word>>
  IN IF str = <<>> THEN done
     ELSE IF Head(str) = " " THEN done \o Split(Tail(str), <<>>)
     ELSE Split(Tail(str), Append(word, Head(str)))

\* sep.join(words)
RECURSIVE Join(_, _)
Join(words, sep) ==
  IF words = <<>> THEN <<>>
  ELSE IF Len(words) = 1 THEN words[1]
  ELSE words[1] \o sep \o Join(Tail(words), sep)

safe_username(username) == Join(Split(username, <<>>), <<"_">>)

default_settings ==
  [unit_preference |-> "metric",
   ideal_setpoints |-> [temperature |-> 22, humidity |-> 55, vpd |-> <<4, 5>>]]

\* bcrypt: the hash determines the password it was made from (the salt is left out)
hash_password(plain) == <<"bcrypt", plain>>
verify_password(plain, hashed) == hashed = <<"bcrypt", plain>>

UserRecord(name, password, role) ==
  [name |-> name, password_hash |-> hash_password(password), role |-> role,
   settings |-> default_settings]

\* the user database is a function from the usernames it holds to their records
NoUsers == [u \in {} |-> UserRecord("", "", "user")]
WithUser(db, username, rec) ==
  [u \in DOMAIN db \cup {username} |-> IF u = username THEN rec ELSE db[u]]
WithoutUser(db, username) == [u \in DOMAIN db \ {username} |-> db[u]]

ADMIN == <<"a", "d", "m", "i", "n">>

ensure_admin_exists(db) ==
  IF \E u \in DOMAIN db : db[u].role = "admin" THEN db
  ELSE WithUser(db, ADMIN, UserRecord("Administrator", "Admin123!", "admin"))

\* a directory is [exists, files]; files maps the names it holds to their contents
NoDir == [exists |-> FALSE, files |-> [f \in {} |-> <<>>]]
EmptyDir == [exists |-> TRUE, files |-> [f \in {} |-> <<>>]]

UserDir(username) == safe_username(username)

\* get_user_dir: the directory is created when it is not there
get_user_dir(fs, username) ==
  [d \in DOMAIN fs |-> IF d = UserDir(username) /\ ~fs[d].exists THEN EmptyDir ELSE fs[d]]

WriteFile(dir, name, content) ==
  [exists |-> TRUE,
   files |-> [f \in DOMAIN dir.files \cup {name} |-> IF f = name THEN content ELSE dir.files[f]]]

\* delete_user: the record is removed, and the directory with all it holds
delete_user_db(db, username) == IF username \in DOMAIN db THEN WithoutUser(db, username) ELSE db
delete_user_files(fs, username) ==
  [d \in DOMAIN fs |-> IF d = UserDir(username) THEN NoDir ELSE fs[d]]

----------------------------------------------------------------------------
(* utils/data_tools.py: uploaded datasets.  A CSV text is its sequence of  *)
(* lines, each a sequence of cells; the first line is the header.          *)

METADATA == <<"metadata.json">>
DatasetName(timestamp) == <<"dataset_", timestamp, ".csv">>

\* pd.read_csv of a text: EmptyDataError when there is no header line
Parses(text) == text # <<>>
RowsOf(text) == Len(text) - 1
ColumnsOf(text) == Len(text[1])

\* the files of the user's directory after save_uploaded_dataset at clock second t:
\* the dataset is written first, the metadata only once the text has been parsed
save_uploaded_dataset(fs, username, text, t) ==
  LET made == get_user_dir(fs, username)
      d == UserDir(username)
      stored == WriteFile(made[d], DatasetName(t), text)
      meta == [latest_file |-> DatasetName(t), uploaded_at |-> t,
               rows |-> RowsOf(text), columns |-> ColumnsOf(text)]
  IN [made EXCEPT ![d] = IF Parses(text) THEN WriteFile(stored, METADATA, meta) ELSE stored]

NoDataset == [status |-> "none"]

\* what load_latest_dataset returns (or raises) for the files as they are
load_latest_dataset(fs, username) ==
  LET dir == get_user_dir(fs, username)[UserDir(username)]
  IN IF METADATA \notin DOMAIN dir.files THEN NoDataset
     ELSE LET meta == dir.files[METADATA]
          IN IF meta.latest_file \notin DOMAIN dir.files THEN NoDataset
             ELSE IF ~Parses(dir.files[meta.latest_file]) THEN [status |-> "EmptyDataError"]
             ELSE [status |-> "ok", df |-> dir.files[meta.latest_file],
                   uploaded_at |-> meta.uploaded_at, rows |-> meta.rows, columns |-> meta.columns]

----------------------------------------------------------------------------
(* utils/data_tools.py: the report.  A dataset is [nrows, columns]; a      *)
(* column is [name, dtype, values], dtype "number" or "object".  A report  *)
(* text is its sequence of lines, each a record with its kind in `line`.   *)

IsNumber(col) == col.dtype = "number"
Names(columns) == [i \in 1..Len(columns) |-> columns[i].name]

\* df.select_dtypes(include="number"): the numeric columns, in column order
select_dtypes_number(df) == SelectSeq(df.columns, IsNumber)

RatMin(S) == CHOOSE x \in S : \A y \in S : RatLeq(x, y)
Present(values) == {values[i] : i \in {j \in 1..Len(values) : ~IsNaN(values[j])}}

STATS == {"Mean", "Min", "Max", "count"}
EmptySummary == [columns |-> {}, rows |-> <<>>]

\* summarize_numeric_columns: pd.DataFrame() (no rows, no columns) when the numeric
\* part is empty, that is, has no column or no row; otherwise one row of statistics
\* per numeric column (of describe()'s statistics the ones the report reads, and
\* the count)
summarize_numeric_columns(df) ==
  LET numeric_cols == select_dtypes_number(df)
  IN IF numeric_cols = <<>> \/ df.nrows = 0 THEN EmptySummary
     ELSE [columns |-> STATS,
           rows |-> [i \in 1..Len(numeric_cols) |->
                       LET v == numeric_cols[i].values
                       IN [feature |-> numeric_cols[i].name,
                           Mean |-> Mean(v),
                           Min |-> IF Present(v) = {} THEN NaN ELSE RatMin(Present(v)),
                           Max |-> IF Present(v) = {} THEN NaN ELSE RatMax(Present(v)),
                           count |-> Len(SelectSeq(v, NotNaN))]]]

\* summary.sort_values("Mean", ascending=False): the orders the (unstable) sort may
\* return: means do not increase, rows without a mean come last
sort_values_descending(rows) ==
  {[i \in 1..Len(rows) |-> rows[p[i]]] : p \in
     {q \in Perms(Len(rows)) : \A i, j \in 1..Len(rows) :
        i < j => \/ IsNaN(rows[q[j]].Mean)
                 \/ (~IsNaN(rows[q[i]].Mean) /\ RatLeq(rows[q[j]].Mean, rows[q[i]].Mean))}}

TOP_FOCUS == 3
head(rows, n) == SubSeq(rows, 1, IF Len(rows) < n THEN Len(rows) ELSE n)

\* str.title() of the words the settings hold
TITLE ==
  [metric |-> "Metric", imperial |-> "Imperial", temperature |-> "Temperature",
   humidity |-> "Humidity", vpd |-> "Vpd"]

SETPOINT_KEYS == <<"temperature", "humidity", "vpd">>
NoSetpoints == [k \in {} |-> 0]

Heading(text) == [line |-> "heading", text |-> text]
Blank == [line |-> "blank"]
KEY_METRICS == Heading("## Key Metrics")

\* the set of results build_report_text may give at clock t: a text, or the error
\* raised
build_report_text(df, prefs, t) ==
  LET rows == df.nrows
      cols == Len(df.columns)
      numeric_cols == Names(select_dtypes_number(df))
      units == TITLE[IF "unit_preference" \in DOMAIN prefs THEN prefs.unit_preference
                     ELSE "metric"]
      setpoints == IF "ideal_setpoints" \in DOMAIN prefs THEN prefs.ideal_setpoints
                   ELSE NoSetpoints
      InSetpoints(k) == k \in DOMAIN setpoints
      keys == SelectSeq(SETPOINT_KEYS, InSetpoints)
      report_lines ==
        << Heading("# Climate Data Summary"), Blank,
           [line |-> "generated", at |-> t],
           [line |-> "size", rows |-> rows, cols |-> cols],
           [line |-> "numeric", names |-> numeric_cols],
           Blank,
           Heading("## User Preferences"),
           [line |-> "units", units |-> units] >>
        \o (IF keys # <<>>
            THEN <<Heading("- Ideal setpoints:")>>
                 \o [i \in 1..Len(keys) |->
                       [line |-> "setpoint", key |-> TITLE[keys[i]], value |-> setpoints[keys[i]]]]
            ELSE <<>>)
        \o <<Blank>>
      closing == <<[line |-> "closing"]>>
      Metric(row) == [line |-> "metric", feature |-> row.feature,
                      mean |-> Format(row.Mean, 2), high |-> Format(row.Max, 2)]
  IN IF numeric_cols = <<>>
     THEN {[status |-> "ok", text |-> report_lines \o closing]}
     ELSE LET summary == summarize_numeric_columns(df)
          IN IF "Mean" \notin summary.columns
             THEN {[status |-> "KeyError", text |-> <<>>]}
             ELSE {[status |-> "ok",
                    text |-> report_lines \o <<KEY_METRICS>>
                             \o [i \in 1..Len(head(sorted, TOP_FOCUS)) |->
                                   Metric(head(sorted, TOP_FOCUS)[i])]
                             \o <<Blank>> \o closing] :
                     sorted \in sort_values_descending(summary.rows)}

----------------------------------------------------------------------------
(* The inputs: lists of uploaded tables *)

FarStamp == ((ROLLING_WINDOW + 1) * 60) \div 45 + 1
StampCells == (0..MaxStamp) \cup {BadCell, FarStamp}

Reading(t, rh, vpd, par) ==
  [air_temp_C |-> t, rh_percent |-> rh, vpd_kPa |-> vpd, par_umol_m2_s |-> par]

Readings ==
  { Reading(20, 55, 1, 100), Reading(26, 60, 2, BadCell), Reading(28, BadCell, 1, 200) }

RawRow(stamp, r) == [c \in AllCols |-> IF c = "timestamp" THEN stamp ELSE r[c]]
RawRows == {RawRow(s, r) : s \in StampCells, r \in Readings}

ColumnChoices ==
  { AllCols, AllCols \ {"par_umol_m2_s"}, AllCols \ {"vpd_kPa"}, AllCols \ {"timestamp"} }

Table(cols, rows) ==
  Frame(cols, "object", [i \in 1..Len(rows) |-> [c \in cols |-> rows[i][c]]])

\* one table, or the same rows split over two tables, or the empty list
Inputs(rows) ==
  {<<>>}
  \cup {<<Table(cols, rows)>> : cols \in ColumnChoices}
  \cup {<<Table(AllCols, SubSeq(rows, 1, k)), Table(AllCols, SubSeq(rows, k + 1, Len(rows)))>> :
          k \in 1..(Len(rows) - 1)}

----------------------------------------------------------------------------
(* The pipeline: ingest, clean, clean again, KPIs *)

NotRun == [status |-> "not_run", cols |-> {}, dtype |-> "object", rows |-> <<>>]
NoKpiResult == [status |-> "not_run", vals |-> NoKpis]
NoFigResult == [status |-> "not_run", cols |-> {}, figs |-> NoFigs]

InitPipeline ==
  /\ \E n \in 0..MaxRows : \E rows \in [1..n -> RawRows] : dfs \in Inputs(rows)
  /\ combined = NoneFrame
  /\ hourly = NotRun
  /\ hourly2 = NotRun
  /\ kpis = NoKpiResult
  /\ chartSpecs = NoFigResult
  /\ pc = "start"

NoPipeline ==
  /\ dfs = <<>>
  /\ combined = NoneFrame
  /\ hourly = NotRun
  /\ hourly2 = NotRun
  /\ kpis = NoKpiResult
  /\ chartSpecs = NoFigResult
  /\ pc = "idle"

LoadAndConcat ==
  /\ pc = "start"
  /\ combined' \in load_and_concat(dfs)
  /\ pc' = IF dfs = <<>> THEN "no_data" ELSE "loaded"
  /\ UNCHANGED <<dfs, hourly, hourly2, kpis, chartSpecs, store, accounts, reporting, auth>>

CleanAndEngineer ==
  /\ pc = "loaded"
  /\ hourly' = clean_and_engineer(combined)
  /\ pc' = IF hourly'.status = "ok" THEN "cleaned" ELSE "failed"
  /\ UNCHANGED <<dfs, combined, hourly2, kpis, chartSpecs, store, accounts, reporting, auth>>

ComputeKpis ==
  /\ pc = "cleaned"
  /\ kpis' = compute_kpis(hourly)
  /\ pc' = IF kpis'.status = "ok" THEN "kpis" ELSE "failed"
  /\ UNCHANGED <<dfs, combined, hourly, hourly2, chartSpecs, store, accounts, reporting, auth>>

\* clean_and_engineer applied to its own result
CleanAgain ==
  /\ pc = "cleaned"
  /\ hourly2' = clean_and_engineer(Frame(hourly.cols, hourly.dtype, hourly.rows))
  /\ pc' = "recleaned"
  /\ UNCHANGED <<dfs, combined, hourly, kpis, chartSpecs, store, accounts, reporting, auth>>

\* the series with only the columns in cols
Project(df, cols) ==
  Frame(cols, df.dtype, [i \in 1..Len(df.rows) |-> [c \in cols |-> df.rows[i][c]]])

\* the metric columns a series handed to the chart builder may lack
AbsentChoices == {{}, {"air_temp_C"}, {"rh_percent"}, {"vpd_kPa"}, {"rh_percent", "vpd_kPa"}}

\* build_plotly_specs applied to the cleaned series, or to it without some metric
BuildPlotlySpecs ==
  /\ pc = "cleaned"
  /\ \E absent \in AbsentChoices :
       LET df == Project(hourly, hourly.cols \ absent)
           r == build_plotly_specs(df)
       IN chartSpecs' = [status |-> r.status, cols |-> df.cols, figs |-> r.figs]
  /\ pc' = IF chartSpecs'.status = "ok" THEN "charts" ELSE "charts_failed"
  /\ UNCHANGED <<dfs, combined, hourly, hourly2, kpis, store, accounts, reporting, auth>>

----------------------------------------------------------------------------
(* The artifact store: writes and reads of per-user snapshots *)

Emails == { <<"u", "@", "x">>, <<"u", "_", "a", "t", "_", "x">>, <<"v", "@", "x">> }
ArtifactDirs == {ArtifactDir(e) : e \in Emails}

\* what a pipeline run hands to write_artifacts for the rows of one uploaded table
RunOf(rows) ==
  LET df == clean_and_engineer(CHOOSE f \in load_and_concat(<<Table(AllCols, rows)>>) : TRUE)
  IN [series |-> Frame(df.cols, df.dtype, df.rows),
      kpis |-> compute_kpis(df).vals,
      chart_specs |-> build_plotly_specs(df).figs]

SampleRuns ==
  { RunOf(<<>>),
    RunOf(<<RawRow(1, Reading(26, 60, 2, BadCell))>>),
    RunOf(<<RawRow(0, Reading(20, 55, 1, 100)), RawRow(5, Reading(26, 60, 2, BadCell))>>),
    RunOf(<<RawRow(0, Reading(20, 55, 1, 100)), RawRow(1, Reading(21, 60, 2, 200)),
            RawRow(2, Reading(26, 60, 2, 100))>>) }

\* a report text the caller wrote itself
OwnReport == [title |-> "# Greenhouse notes", metrics |-> [k \in {} |-> <<>>]]

NoWrite == [done |-> FALSE]
NoRead == [done |-> FALSE]

InitStore ==
  /\ artifacts = [d \in ArtifactDirs |-> NoFiles]
  /\ lastWrite = NoWrite
  /\ latest = NoRead

\* the caller has (series, kpis, chart_specs, report_text) for the user and calls
\* write_artifacts, which takes the first three
WriteArtifacts ==
  \E email \in Emails, run \in SampleRuns : \E report_text \in {ReportOf(run.kpis), OwnReport} :
    /\ artifacts' = write_artifacts(artifacts, email, run.series, run.kpis, run.chart_specs)
    /\ lastWrite' = [done |-> TRUE, email |-> email, series |-> run.series, kpis |-> run.kpis,
                     chart_specs |-> run.chart_specs, report_text |-> report_text]
    /\ latest' = NoRead
    /\ UNCHANGED <<pipeline, accounts, reporting, auth>>

ReadLatest ==
  \E email \in Emails :
    /\ latest' = [done |-> TRUE, email |-> email, snapshot |-> read_latest(artifacts, email)]
    /\ UNCHANGED <<artifacts, lastWrite, pipeline, accounts, reporting, auth>>

----------------------------------------------------------------------------
(* Accounts and uploaded datasets *)

Usernames == { ADMIN, <<"a", " ", "b">>, <<"a", "_", "b">> }
UserDirs == {UserDir(u) : u \in Usernames}
ROLES == {"user", "admin"}

Uploads ==
  { << <<"timestamp", "air_temp_C">>, <<"0", "20">>, <<"1", "26">> >>,
    << <<"timestamp", "air_temp_C", "rh_percent">>, <<"0", "21", "50">> >>,
    << >> }

NoLoad == [done |-> FALSE]

InitAccounts ==
  /\ userDb = ensure_admin_exists(NoUsers)
  /\ userFiles = [d \in UserDirs |-> NoDir]
  /\ now = 0
  /\ loaded = NoLoad

\* create_user: refused (ValueError) when the username is taken
create_user(db, username, name, password, role) ==
  IF username \in DOMAIN db THEN db ELSE WithUser(db, username, UserRecord(name, password, role))

CreateUser(username) ==
  \E role \in ROLES :
    /\ userDb' = create_user(userDb, username, "Grower", "secret", role)
    /\ UNCHANGED <<userFiles, now, loaded, pipeline, store, reporting, auth>>

DeleteUser(username) ==
  /\ username \in DOMAIN userDb
  /\ userDb' = delete_user_db(userDb, username)
  /\ userFiles' = delete_user_files(userFiles, username)
  /\ UNCHANGED <<now, loaded, pipeline, store, reporting, auth>>

SaveUploadedDataset(username) ==
  /\ username \in DOMAIN userDb
  /\ \E text \in Uploads : userFiles' = save_uploaded_dataset(userFiles, username, text, now)
  /\ UNCHANGED <<userDb, now, loaded, pipeline, store, reporting, auth>>

LoadLatestDataset(username) ==
  /\ username \in DOMAIN userDb
  /\ loaded' = [done |-> TRUE, user |-> username,
                result |-> load_latest_dataset(userFiles, username)]
  /\ userFiles' = get_user_dir(userFiles, username)
  /\ UNCHANGED <<userDb, now, pipeline, store, reporting, auth>>

Tick ==
  /\ now < MaxClock
  /\ now' = now + 1
  /\ UNCHANGED <<userDb, userFiles, loaded, pipeline, store, reporting, auth>>

----------------------------------------------------------------------------
(* Reports: build_report_text applied to a dataset and the user's settings *)

NumberColumn(name, values) == [name |-> name, dtype |-> "number", values |-> values]
ObjectColumn(name) == [name |-> name, dtype |-> "object", values |-> <<>>]

\* the i-th value of a numeric column, for three kinds of data: readings that
\* differ, readings that are all equal, and readings with columns that are missing
SampleValue(kind, name, i) ==
  CASE kind = "spread" ->
         ( CASE name = "air_temp_C" -> <<20 + 6 * (i - 1), 1>>
             [] name = "rh_percent" -> <<55 + 5 * (i - 1), 1>>
             [] name = "vpd_kPa" -> <<i, 1>>
             [] name = "par_umol_m2_s" -> IF i % 2 = 0 THEN NaN ELSE <<100 * i, 1>> )
    [] kind = "equal" -> <<20, 1>>
    [] kind = "gaps" ->
         ( CASE name = "air_temp_C" -> <<30, 1>>
             [] name = "rh_percent" -> <<20, 1>>
             [] name = "vpd_kPa" -> IF i = 1 THEN NaN ELSE <<5, 1>>
             [] name = "par_umol_m2_s" -> NaN )

SampleKinds == {"spread", "equal", "gaps"}

ColumnLists ==
  { <<>>,
    <<"timestamp">>,
    <<"timestamp", "site">>,
    <<"timestamp", "air_temp_C">>,
    <<"timestamp", "air_temp_C", "rh_percent", "vpd_kPa">>,
    <<"timestamp", "air_temp_C", "rh_percent", "vpd_kPa", "par_umol_m2_s">>,
    <<"par_umol_m2_s", "vpd_kPa", "rh_percent", "air_temp_C">> }

Dataset(names, n, kind) ==
  [nrows |-> n,
   columns |-> [c \in 1..Len(names) |->
                  IF names[c] \in NumericSet
                  THEN NumberColumn(names[c], [i \in 1..n |-> SampleValue(kind, names[c], i)])
                  ELSE ObjectColumn(names[c])]]

Datasets ==
  {Dataset(names, n, kind) : names \in ColumnLists, n \in 0..MaxReportRows, kind \in SampleKinds}

SettingsChoices ==
  { default_settings,
    [unit_preference |-> "imperial", ideal_setpoints |-> [humidity |-> 60]],
    [unit_preference |-> "imperial"] }

NotBuilt == [status |-> "not_run", text |-> <<>>]

NoReporting ==
  /\ dataset = Dataset(<<>>, 0, "equal")
  /\ settings = default_settings
  /\ report = NotBuilt

InitReporting ==
  /\ dataset \in Datasets
  /\ settings \in SettingsChoices
  /\ report = NotBuilt

BuildReportText ==
  /\ report = NotBuilt
  /\ report' \in build_report_text(dataset, settings, now)
  /\ UNCHANGED <<dataset, settings, pipeline, store, accounts, auth>>

----------------------------------------------------------------------------
(* streamlit_app.py: sessions.  Every action is one run of the script in a  *)
(* session: the bootstrap (ensure_admin_exists) and then main().  A session *)
(* holds st.session_state, the page the run rendered, and for which         *)
(* username verify_password succeeded when the session was signed in.       *)

SESSIONS == {"s1", "s2"}
PASSWORDS == {"Admin123!", "secret"}
AUTH_KEYS == {"auth_user", "auth_role"}

NoSessionState == [k \in {} |-> ""]
SignedIn(username, role) == [k \in AUTH_KEYS |-> IF k = "auth_user" THEN username ELSE role]
NoOne == <<>>

NewSession == [state |-> NoSessionState, verified |-> NoOne, page |-> "none"]

InitSessions == sessions = [s \in SESSIONS |-> NewSession]

\* get_user: the record, or nothing
get_user(db, username) == IF username \in DOMAIN db THEN <<db[username]>> ELSE <<>>

\* reset_password: KeyError (nothing written) for an unknown user
reset_password(db, username, new_password) ==
  IF username \notin DOMAIN db THEN db
  ELSE [db EXCEPT ![username].password_hash = hash_password(new_password)]

Authenticated(s) == "auth_user" \in DOMAIN sessions[s].state
SessionRole(s) ==
  IF "auth_role" \in DOMAIN sessions[s].state THEN sessions[s].state["auth_role"] ELSE "user"

\* render_sidebar: the pages the sidebar offers for a role
nav_items(role) == {"Dashboard", "Settings"} \cup (IF role = "admin" THEN {"Admin"} ELSE {})

\* the user database as main() finds it, after the bootstrap of the run
Booted == ensure_admin_exists(userDb)

\* login_view with the form submitted
Login(s) ==
  /\ ~Authenticated(s)
  /\ \E username \in Usernames, password \in PASSWORDS :
       LET user == get_user(Booted, username)
       IN IF user = <<>> \/ ~verify_password(password, user[1].password_hash)
          THEN sessions' = [sessions EXCEPT ![s].page = "login"]
          ELSE sessions' = [sessions EXCEPT
                 ![s] = [state |-> SignedIn(username, user[1].role),
                         verified |-> username, page |-> "login"]]
  /\ userDb' = Booted
  /\ UNCHANGED <<userFiles, now, loaded, pipeline, store, reporting>>

\* the Log out button: _reset_session, and the rerun shows the login form
Logout(s) ==
  /\ Authenticated(s)
  /\ sessions' = [sessions EXCEPT ![s] = [state |-> NoSessionState, verified |-> NoOne,
                                          page |-> "login"]]
  /\ userDb' = Booted
  /\ UNCHANGED <<userFiles, now, loaded, pipeline, store, reporting>>

\* main() for a selection of the sidebar: the page it renders
PageFor(role, selection) ==
  IF selection = "Admin" /\ role # "admin" THEN "denied" ELSE selection

Navigate(s, selection) ==
  /\ Authenticated(s)
  /\ selection \in nav_items(SessionRole(s))
  /\ sessions' = [sessions EXCEPT ![s].page = PageFor(SessionRole(s), selection)]
  /\ userDb' = Booted
  /\ UNCHANGED <<userFiles, now, loaded, pipeline, store, reporting>>

\* a run of main() that renders admin_view for the session and handles its forms
InAdminView(s) ==
  /\ Authenticated(s)
  /\ sessions[s].page = "Admin"
  /\ SessionRole(s) = "admin"

AdminCreateUser(s) ==
  /\ InAdminView(s)
  /\ \E username \in Usernames, role \in ROLES :
       userDb' = create_user(Booted, username, "Grower", "secret", role)
  /\ UNCHANGED <<userFiles, now, loaded, sessions, pipeline, store, reporting>>

AdminResetPassword(s) ==
  /\ InAdminView(s)
  /\ \E target \in DOMAIN Booted, new_password \in PASSWORDS :
       userDb' = reset_password(Booted, target, new_password)
  /\ UNCHANGED <<userFiles, now, loaded, sessions, pipeline, store, reporting>>

AdminDeleteUser(s) ==
  /\ InAdminView(s)
  /\ \E target \in DOMAIN Booted \ {sessions[s].state["auth_user"]} :
       /\ userDb' = delete_user_db(Booted, target)
       /\ userFiles' = delete_user_files(userFiles, target)
  /\ UNCHANGED <<now, loaded, sessions, pipeline, store, reporting>>

----------------------------------------------------------------------------
(* Specifications *)

\* one run of the pipeline on a list of uploaded tables
Init == InitPipeline /\ InitStore /\ InitAccounts /\ NoReporting /\ InitSessions
Next == LoadAndConcat \/ CleanAndEngineer \/ ComputeKpis \/ CleanAgain \/ BuildPlotlySpecs
Spec == Init /\ [][Next]_vars

\* writes and reads of the artifact store
InitIdle == NoPipeline /\ InitStore /\ InitAccounts /\ NoReporting /\ InitSessions
NextStore == WriteArtifacts \/ ReadLatest
SpecStore == InitIdle /\ [][NextStore]_vars

\* the admin console and the dashboard acting on accounts and datasets
NextAccounts ==
  \/ \E u \in Usernames : CreateUser(u)
  \/ \E u \in Usernames : DeleteUser(u)
  \/ \E u \in Usernames : SaveUploadedDataset(u)
  \/ \E u \in Usernames : LoadLatestDataset(u)
  \/ Tick
SpecAccounts == InitIdle /\ [][NextAccounts]_vars

\* reports composed for datasets of every shape
InitReport == NoPipeline /\ InitStore /\ InitAccounts /\ InitReporting /\ InitSessions
NextReport == BuildReportText
SpecReport == InitReport /\ [][NextReport]_vars

\* sessions signing in and out and administrators managing the accounts
NextAuth ==
  \/ \E s \in SESSIONS : Login(s)
  \/ \E s \in SESSIONS : Logout(s)
  \/ \E s \in SESSIONS, selection \in {"Dashboard", "Settings", "Admin"} : Navigate(s, selection)
  \/ \E s \in SESSIONS : AdminCreateUser(s)
  \/ \E s \in SESSIONS : AdminResetPassword(s)
  \/ \E s \in SESSIONS : AdminDeleteUser(s)
SpecAuth == InitIdle /\ [][NextAuth]_vars

----------------------------------------------------------------------------
(* Properties of the pipeline *)

Cleaned == pc \in {"cleaned", "recleaned", "kpis", "charts", "charts_failed"} \/ (pc = "failed" /\ hourly.status = "ok")
Stamps(r) == [i \in 1..Len(r.rows) |-> r.rows[i]["timestamp"]]

\* the rows of `combined` that the cleaner keeps: the first of each timestamp, when
\* none of its required cells is missing
KeptIndices ==
  {i \in 1..Len(combined.rows) :
     /\ \A j \in 1..(i - 1) : combined.rows[j]["timestamp"] # combined.rows[i]["timestamp"]
     /\ \A c \in REQUIRED : combined.rows[i][c] # BadCell}

\* the positions of `hourly` (hours) in which column c has a sample of its own
Sampled(c) ==
  {k \in 1..Len(hourly.rows) :
     \E i \in KeptIndices : /\ combined.rows[i]["timestamp"] \div 60 = hourly.rows[k]["timestamp"] \div 60
                            /\ combined.rows[i][c] # BadCell}

\* position k is a missing bucket of column c lying between two samples of c
Between(c, k) ==
  /\ k \notin Sampled(c)
  /\ \E p \in Sampled(c) : p < k
  /\ \E q \in Sampled(c) : q > k

Before(c, k) == SetMax({p \in Sampled(c) : p < k})
After(c, k) == SetMin({q \in Sampled(c) : q > k})
RunLength(c, k) == After(c, k) - Before(c, k) - 1

OnLine(c, k) ==
  LET p == Before(c, k)
      q == After(c, k)
  IN RatScale(hourly.rows[k][c], q - p, 1)
       = RatAdd(RatScale(hourly.rows[p][c], q - k, 1), RatScale(hourly.rows[q][c], k - p, 1))

\* C1: the series returned by clean_and_engineer has unique, strictly increasing
\* timestamps, each exactly one hour after the one before it.
C1_HourlySpaced ==
  \A r \in {hourly, hourly2} :
    r.status = "ok" =>
      /\ \A i \in 1..(Len(r.rows) - 1) : Stamps(r)[i + 1] = Stamps(r)[i] + 60
      /\ \A i, j \in 1..Len(r.rows) : i < j => Stamps(r)[i] < Stamps(r)[j]

\* C1 witness: two rows four hours apart, given out of order, became a five-hour series
C1_Witness ==
  /\ pc = "cleaned"
  /\ Len(dfs) = 1 /\ Len(dfs[1].rows) = 2
  /\ dfs[1].rows[1]["timestamp"] > dfs[1].rows[2]["timestamp"]
  /\ Len(hourly.rows) = 5

\* C2: a run of missing buckets between two samples is interpolated only
\* when it has at most INTERP_LIMIT buckets; every bucket of a longer run stays missing.
C2_LongRunsStayMissing ==
  Cleaned =>
    \A c \in hourly.cols \ {"timestamp"} : \A k \in 1..Len(hourly.rows) :
      Between(c, k) =>
        IF RunLength(c, k) <= INTERP_LIMIT THEN OnLine(c, k) /\ ~IsNaN(hourly.rows[k][c])
        ELSE IsNaN(hourly.rows[k][c])

\* What interpolate(limit=2) does instead: in every run of missing buckets between
\* two samples the first INTERP_LIMIT buckets are filled with the values on the line
\* between the two samples, and only the later buckets of the run stay missing.
FirstBucketsOfRunFilled ==
  Cleaned =>
    \A c \in hourly.cols \ {"timestamp"} : \A k \in 1..Len(hourly.rows) :
      Between(c, k) =>
        IF k - Before(c, k) <= INTERP_LIMIT THEN OnLine(c, k) /\ ~IsNaN(hourly.rows[k][c])
        ELSE IsNaN(hourly.rows[k][c])

\* a run of three missing temperature buckets, two filled and one left
PartlyFilledRun ==
  /\ pc = "cleaned"
  /\ \E k \in 1..Len(hourly.rows) :
       /\ Between("air_temp_C", k) /\ RunLength("air_temp_C", k) = 3
       /\ k - Before("air_temp_C", k) = 3
       /\ IsNaN(hourly.rows[k]["air_temp_C"])
       /\ ~IsNaN(hourly.rows[k - 1]["air_temp_C"])
       /\ hourly.rows[k - 1]["air_temp_C"] # hourly.rows[k - 3]["air_temp_C"]

\* no column of r has a missing value after a present one
NoGapLeft(r) ==
  \A c \in r.cols \ {"timestamp"} : \A i, j \in 1..Len(r.rows) :
    (i < j /\ ~IsNaN(r.rows[i][c])) => ~IsNaN(r.rows[j][c])

\* C3: clean_and_engineer applied to its own result returns that result,
\* also when the result still has missing buckets.
C3_Idempotent == pc = "recleaned" => hourly2 = hourly

\* What holds instead: clean_and_engineer applied to its own result returns that
\* result when no column of the result has a missing value after a present one.
IdempotentWithoutGaps == (pc = "recleaned" /\ NoGapLeft(hourly)) => hourly2 = hourly

\* a result with interpolated buckets and no gap left was cleaned again
RecleanedWithoutGaps ==
  /\ pc = "recleaned"
  /\ NoGapLeft(hourly)
  /\ Len(hourly.rows) = 4
  /\ Cardinality(KeptIndices) = 2


\* the rows of the uploaded tables, in concatenated order, with the timestamp parsed
InputRows ==
  LET raw == Concat(dfs).rows
  IN [i \in 1..Len(raw) |-> [raw[i] EXCEPT !["timestamp"] = to_datetime(@)]]

Count(rows, x) == Cardinality({i \in 1..Len(rows) : rows[i] = x})

\* C6: on an input with no rows, without the required columns, or whose rows all miss
\* a required field, clean_and_engineer raises nothing and returns an empty series.
C6_DegenerateInputGivesEmpty ==
  ( /\ hourly.status # "not_run"
    /\ \/ combined.rows = <<>>
       \/ ~(REQUIRED \subseteq combined.cols)
       \/ /\ REQUIRED \subseteq combined.cols
          /\ \A i \in 1..Len(combined.rows) :
                \E c \in REQUIRED : combined.rows[i][c] = BadCell )
  => (hourly.status = "ok" /\ hourly.rows = <<>>)

\* C7: of the rows with one timestamp, the cleaner keeps the one that came first in
\* the concatenated input.
C7_FirstSeenWins ==
  hourly.status = "ok" =>
    LET kept == drop_duplicates(combined.rows)
        firsts == {i \in 1..Len(InputRows) :
                     /\ HasStamp(InputRows[i])
                     /\ \A j \in 1..(i - 1) : InputRows[j]["timestamp"] # InputRows[i]["timestamp"]}
    IN \A k \in 1..Len(kept) : \E i \in firsts : InputRows[i] = kept[k]

\* C8: load_and_concat returns the no-data sentinel for an empty list, and otherwise
\* exactly the input rows whose timestamp parses, as often as they occur, in
\* ascending order of timestamp.
C8_AllParsedRowsAscending ==
  pc \in {"no_data", "loaded"} =>
    IF dfs = <<>> THEN combined = NoneFrame
    ELSE "timestamp" \in combined.cols =>
      /\ combined.kind = "frame"
      /\ \A i \in 1..(Len(combined.rows) - 1) :
           combined.rows[i]["timestamp"] <= combined.rows[i + 1]["timestamp"]
      /\ \A i \in 1..Len(combined.rows) : HasStamp(combined.rows[i])
      /\ \A x \in Range(InputRows) \cup Range(combined.rows) :
           Count(combined.rows, x) = IF HasStamp(x) THEN Count(InputRows, x) ELSE 0

\* C8 witness: two tables whose rows carry the same timestamp and different readings,
\* given later-first; both rows are in the result
C8_Witness ==
  /\ pc = "loaded"
  /\ Len(dfs) = 2
  /\ Len(combined.rows) = 2
  /\ combined.rows[1]["timestamp"] = combined.rows[2]["timestamp"]
  /\ combined.rows[1] # combined.rows[2]

\* C9: compute_kpis raises nothing, every value it returns is a number (never NaN),
\* and for an empty series it returns no value at all.
C9_KpisFinite ==
  (hourly.status = "ok" /\ pc \in {"kpis", "failed"}) =>
    /\ kpis.status = "ok"
    /\ \A k \in DOMAIN kpis.vals : ~IsNaN(kpis.vals[k])
    /\ hourly.rows = <<>> => DOMAIN kpis.vals = {}

\* C10: air_temp_day_max is the largest present temperature among the last
\* min(ROLLING_WINDOW, N) samples of the series.
C10_DayMaxOverLastWindow ==
  (pc = "kpis" /\ hourly.rows # <<>>) =>
    LET n == Len(hourly.rows)
        recent == {hourly.rows[i]["air_temp_C"] : i \in {j \in 1..n : j > n - ROLLING_WINDOW}}
        present == {t \in recent : ~IsNaN(t)}
    IN /\ kpis.vals["air_temp_day_max"] \in present
       /\ \A t \in present : RatLeq(t, kpis.vals["air_temp_day_max"])

\* C10 witness: a series longer than the window whose largest temperature lies before
\* the window
C10_Witness ==
  /\ pc = "kpis"
  /\ Len(hourly.rows) > ROLLING_WINDOW
  /\ \E i \in 1..(Len(hourly.rows) - ROLLING_WINDOW) :
       /\ ~IsNaN(hourly.rows[i]["air_temp_C"])
       /\ ~RatLeq(hourly.rows[i]["air_temp_C"], kpis.vals["air_temp_day_max"])

----------------------------------------------------------------------------
(* Properties of the PAR total *)

\* the sum of the radiation samples of the series that are present
RadiationTotal(rows) ==
  LET present == {i \in 1..Len(rows) : ~IsNaN(rows[i]["par_umol_m2_s"])}
      RECURSIVE Total(_)
      Total(S) == IF S = {} THEN <<0, 1>>
                  ELSE LET i == CHOOSE j \in S : TRUE
                       IN RatAdd(rows[i]["par_umol_m2_s"], Total(S \ {i}))
  IN Total(present)

\* the series of the specification's example: radiation 100, missing, 200
ExampleSeries ==
  Frame(AllCols, "float64",
        << [timestamp |-> 0, air_temp_C |-> <<20, 1>>, rh_percent |-> <<55, 1>>,
            vpd_kPa |-> <<1, 1>>, par_umol_m2_s |-> <<100, 1>>],
           [timestamp |-> 60, air_temp_C |-> <<20, 1>>, rh_percent |-> <<55, 1>>,
            vpd_kPa |-> <<1, 1>>, par_umol_m2_s |-> NaN],
           [timestamp |-> 120, air_temp_C |-> <<20, 1>>, rh_percent |-> <<55, 1>>,
            vpd_kPa |-> <<1, 1>>, par_umol_m2_s |-> <<200, 1>>] >>)

\* C11: par_daily_mol is the sum of the radiation over every sample of the series,
\* a missing sample counting as 0, times 3600 / 1,000,000; the series 100, missing,
\* 200 gives 1.08 = 27/25.
C11_ParOverWholeSeries ==
  /\ compute_kpis(ExampleSeries).vals["par_daily_mol"] = <<27, 25>>
  /\ (pc = "kpis" /\ hourly.rows # <<>>) =>
       /\ kpis.vals["par_daily_mol"] = Rat(RadiationTotal(hourly.rows)[1] * 3600,
                                           RadiationTotal(hourly.rows)[2] * 1000000)
       /\ ~IsNaN(kpis.vals["par_daily_mol"])

\* C11 witness: a series longer than a day with radiation present before the last 24
\* samples and a missing sample that follows a present one
C11_Witness ==
  /\ pc = "kpis"
  /\ Len(hourly.rows) > ROLLING_WINDOW
  /\ \E i \in 1..(Len(hourly.rows) - ROLLING_WINDOW) :
       /\ ~IsNaN(hourly.rows[i]["par_umol_m2_s"])
       /\ hourly.rows[i]["par_umol_m2_s"][1] > 0
  /\ \E i \in 2..Len(hourly.rows) :
       /\ IsNaN(hourly.rows[i]["par_umol_m2_s"])
       /\ ~IsNaN(hourly.rows[i - 1]["par_umol_m2_s"])

----------------------------------------------------------------------------
(* Properties of the chart specs *)

\* C12: build_plotly_specs raises nothing and returns exactly the charts whose metric
\* column the series has: an absent column only leaves its chart out.
C12_AbsentColumnOmitsChart ==
  chartSpecs.status # "not_run" =>
    /\ chartSpecs.status = "ok"
    /\ DOMAIN chartSpecs.figs = {k \in DOMAIN CHARTS : CHARTS[k] \in chartSpecs.cols}

\* with every metric column present the three charts are returned
AllChartsWhenColumnsPresent ==
  ( /\ chartSpecs.status # "not_run"
    /\ {"air_temp_C", "rh_percent", "vpd_kPa"} \subseteq chartSpecs.cols ) =>
    (chartSpecs.status = "ok" /\ DOMAIN chartSpecs.figs = DOMAIN CHARTS)

ChartsBuiltFromFullSeries ==
  chartSpecs.status = "ok" /\ Len(hourly.rows) > 1 /\ DOMAIN chartSpecs.figs = DOMAIN CHARTS

----------------------------------------------------------------------------
(* Properties of the report *)

NumericNames == Names(select_dtypes_number(dataset))
ColumnMean(name) ==
  LET col == CHOOSE c \in Range(dataset.columns) : c.name = name IN Mean(col.values)

\* a is not above b; a column without any value is below every other
MeanLeq(a, b) == IsNaN(a) \/ (~IsNaN(b) /\ RatLeq(a, b))

HasKeyMetrics == \E i \in 1..Len(report.text) : report.text[i] = KEY_METRICS
IsMetricLine(l) == l.line = "metric"
Listed == LET lines == SelectSeq(report.text, IsMetricLine)
          IN [i \in 1..Len(lines) |-> lines[i].feature]

\* without numeric columns the text is there and has no Key Metrics section
NoMetricsSection == report.status = "ok" /\ report.text # <<>> /\ ~HasKeyMetrics

\* the Key Metrics section lists the min(3, n) numeric columns of highest mean, in
\* descending order of mean
TopThreeByMean ==
  /\ report.status = "ok"
  /\ HasKeyMetrics
  /\ Len(Listed) <= 3
  /\ Len(Listed) = Cardinality(Range(Listed))
  /\ Range(Listed) \subseteq Range(NumericNames)
  /\ Len(Listed) = 3 \/ Range(Listed) = Range(NumericNames)
  /\ \A i, j \in 1..Len(Listed) : i < j => MeanLeq(ColumnMean(Listed[j]), ColumnMean(Listed[i]))
  /\ \A u \in Range(NumericNames) \ Range(Listed) :
       \A l \in Range(Listed) : MeanLeq(ColumnMean(u), ColumnMean(l))

\* C13: for a dataset without numeric columns build_report_text returns a non-empty
\* text without a Key Metrics section and raises nothing; for a dataset with numeric
\* columns the Key Metrics section lists at most 3 of them, those of highest mean, in
\* descending order of mean.
C13_ReportKeyMetrics ==
  report # NotBuilt =>
    IF NumericNames = <<>> THEN NoMetricsSection ELSE TopThreeByMean

\* the part of C13 about datasets without numeric columns
ReportWithoutNumericColumns ==
  (report # NotBuilt /\ NumericNames = <<>>) => NoMetricsSection

\* the part of C13 about numeric columns, for datasets that have at least one row
TopThreeWhenRowsExist ==
  (report # NotBuilt /\ NumericNames # <<>> /\ dataset.nrows > 0) => TopThreeByMean

ReportOfFourColumns ==
  report.status = "ok" /\ Len(NumericNames) = 4 /\ Len(Listed) = 3 /\ dataset.nrows > 1

ReportOfTextColumns ==
  report.status = "ok" /\ NumericNames = <<>> /\ Len(dataset.columns) = 2 /\ dataset.nrows > 0

----------------------------------------------------------------------------
(* Properties of the artifact store *)

ReadBackOwnWrite == lastWrite.done /\ latest.done /\ latest.email = lastWrite.email

----------------------------------------------------------------------------
(* Properties of the per-user directories *)

ActsFor(u) == CreateUser(u) \/ DeleteUser(u) \/ SaveUploadedDataset(u) \/ LoadLatestDataset(u)

\* C5: a step taken for one user (an upload, a load, a creation, a deletion) leaves
\* the directory of every other registered user, and the files in it, as they were.
C5_Ownership ==
  [][\A a \in Usernames : ActsFor(a) =>
       \A b \in DOMAIN userDb \ {a} : userFiles'[UserDir(b)] = userFiles[UserDir(b)]]_vars

----------------------------------------------------------------------------
(* Properties of the uploaded datasets *)

\* the step is save_uploaded_dataset(username, text) by a registered user
SavesDataset(username, text) ==
  /\ username \in DOMAIN userDb
  /\ userFiles' = save_uploaded_dataset(userFiles, username, text, now)
  /\ UNCHANGED <<userDb, now, loaded>>

\* what load_latest_dataset has to return once text is the user's latest dataset
LatestIs(result, text) ==
  /\ result.status = "ok"
  /\ result.df = text
  /\ result.rows = RowsOf(text)
  /\ result.columns = ColumnsOf(text)

\* after a save of a dataset, whatever was saved before it and in whatever clock
\* second, the user's latest dataset is that one
LatestSaveIsLoaded ==
  [][\A u \in Usernames, text \in Uploads :
       (SavesDataset(u, text) /\ Parses(text)) =>
          LatestIs(load_latest_dataset(userFiles', u), text)]_vars

\* C14: after any sequence of save_uploaded_dataset calls for a user, some of them in
\* the same clock second, load_latest_dataset returns the content and the counts of
\* the dataset saved last, and it returns the not-found result, never an error, when
\* there is nothing to load.
C14_LoadReturnsLatestSave ==
  [][/\ \A u \in Usernames, text \in Uploads :
          (SavesDataset(u, text) /\ Parses(text)) =>
             LatestIs(load_latest_dataset(userFiles', u), text)
     /\ \A u \in Usernames :
          LoadLatestDataset(u) =>
            /\ loaded'.result.status \in {"ok", "none"}
            /\ (~userFiles[UserDir(u)].exists) => loaded'.result = NoDataset]_vars

----------------------------------------------------------------------------
(* Properties of the administrator bootstrap *)

HasAdmin(db) == \E u \in DOMAIN db : db[u].role = "admin"

\* C15: ensure_admin_exists only adds: every record of the user database is still
\* there and unchanged after it, a database that has an administrator is left as it
\* is, and afterwards some user has the role admin.
C15_EnsureAdminOnlyAdds ==
  LET after == ensure_admin_exists(userDb)
  IN /\ \A u \in DOMAIN userDb : u \in DOMAIN after /\ after[u] = userDb[u]
     /\ HasAdmin(userDb) => after = userDb
     /\ HasAdmin(after)

\* the parts of C15 that do not depend on who is called admin
EnsureAdminKeepsOthers ==
  LET after == ensure_admin_exists(userDb)
  IN /\ \A u \in DOMAIN userDb \ {ADMIN} : u \in DOMAIN after /\ after[u] = userDb[u]
     /\ HasAdmin(userDb) => after = userDb
     /\ HasAdmin(after)

NoAdminLeft == ~HasAdmin(userDb) /\ ADMIN \notin DOMAIN userDb /\ userDb # NoUsers

----------------------------------------------------------------------------
(* Properties of the sessions *)

RunsAdminView(s) ==
  Navigate(s, "Admin") \/ AdminCreateUser(s) \/ AdminResetPassword(s) \/ AdminDeleteUser(s)

IsAdminNow(db, username) == username \in DOMAIN db /\ db[username].role = "admin"

\* a session is signed in only as the username whose password was verified
SignedInAfterVerification ==
  \A s \in SESSIONS : Authenticated(s) => sessions[s].verified = sessions[s].state["auth_user"]

\* C16: a session is authenticated only after verify_password succeeded for its
\* username, and a run renders the Admin console only for a session whose user is, at
\* that run, in the user database with the role admin.
C16_AdminConsoleOnlyForAdmins ==
  [][/\ \A s \in SESSIONS :
          "auth_user" \in DOMAIN sessions'[s].state =>
             sessions'[s].verified = sessions'[s].state["auth_user"]
     /\ \A s \in SESSIONS :
          (RunsAdminView(s) /\ sessions'[s].page = "Admin") =>
             IsAdminNow(Booted, sessions[s].state["auth_user"])]_vars

====
